---- MODULE Spec2Model ----
(***************************************************************************)
(* Model of the epid crate: the IPv4 <-> EPID3 codec of src/src/ipv4.rs    *)
(* and the command loop of src/src/main.rs.                                *)
(*                                                                         *)
(* Numbers.  TLC's integers are 32-bit signed, while the codec works on    *)
(* u32 values up to 2^32 - 1 and the questions are about what happens      *)
(* above that.  An ordinal (or any intermediate of the u32 arithmetic) is  *)
(* therefore a pair <<hi, lo>> standing for hi * 2^16 + lo, 0 <= lo < 2^16;*)
(* it fits a u32 iff hi < 2^16.  Components (digits, octets, dictionary    *)
(* indices) are always below 2^15 in the code paths modelled and are plain *)
(* integers.                                                               *)
(*                                                                         *)
(* Text.  A string is the sequence of its character codes (ASCII).         *)
(***************************************************************************)
EXTENDS Integers, Sequences, FiniteSets, TLC

RECURSIVE Pow2(_)
Pow2(n) == IF n = 0 THEN 1 ELSE 2 * Pow2(n - 1)

(***************************************************************************)
(* u32 arithmetic on <<hi, lo>> pairs.                                     *)
(***************************************************************************)
LIMB == Pow2(16)

WideNorm(h, l) == <<h + (l \div LIMB), l % LIMB>>

WideOfInt(n) == WideNorm(0, n)

WideAdd(x, y) == WideNorm(x[1] + y[1], x[2] + y[2])

\* x * s for a small factor s < 2^15
WideMulSmall(x, s) == WideNorm(x[1] * s, x[2] * s)

\* x / s and x % s for a u32 x and a small divisor 0 < s < 2^15
WideDivMod(x, s) ==
    LET t == (x[1] % s) * LIMB + x[2]
    IN  [q |-> <<x[1] \div s, t \div s>>, r |-> t % s]

WideLess(x, y) == x[1] < y[1] \/ (x[1] = y[1] /\ x[2] < y[2])

FitsU32(x) == x[1] < LIMB

WrapU32(x) == <<x[1] % LIMB, x[2]>>

\* base^exp exactly (no width), for small base and exp
RECURSIVE WidePow(_, _)
WidePow(base, exp) ==
    IF exp = 0 THEN <<0, 1>> ELSE WideMulSmall(WidePow(base, exp - 1), base)

\* const IPV4_COMBS: usize = 4294967296; // 256^4
IPV4_COMBS == <<LIMB, 0>>

\* IPV4_COMBS as f32 is exactly 2^LOG2_IPV4_COMBS
LOG2_IPV4_COMBS == 32

(***************************************************************************)
(* components_base: (IPV4_COMBS as f32).powf(1f32 / (len as f32)).ceil()   *)
(* as u32, in IEEE-754 binary32 (24-bit significand, round to nearest      *)
(* even).                                                                  *)
(***************************************************************************)
CeilLog2(n) == CHOOSE p \in 0..30 : Pow2(p) >= n /\ (p = 0 \/ Pow2(p - 1) < n)

FloorLog2(n) == CHOOSE p \in 0..30 : Pow2(p) <= n /\ n < Pow2(p + 1)

\* 1f32 / (len as f32): the correctly rounded quotient, as m / 2^q with
\* 2^23 <= m <= 2^24.
f32_recip(len) ==
    LET p == CeilLog2(len)
        q == 23 + p
        Q == Pow2(q) \div len
        R == Pow2(q) % len
    IN  [m |-> IF 2 * R > len \/ (2 * R = len /\ Q % 2 = 1) THEN Q + 1 ELSE Q,
         q |-> q]

\* Fixed point with 28 fractional bits; a value v in [1, 2) is v * 2^28.
FixOne == Pow2(28)

FixHalf == Pow2(14)

\* floor(v * v / 2^28) for a fixed-point v < 2^29
FixSqr(v) ==
    LET a == v \div FixHalf
        b == v % FixHalf
    IN  a * a + ((2 * a * b + ((b * b) \div FixHalf)) \div FixHalf)

\* Compares F / 2^q (0 <= F < 2^q) with log2(T) for a real T in [1, 2) known
\* to lie in [lo, hi] / 2^28, digit by digit from the most significant binary
\* digit: the digits of log2(T) come from repeated squaring.  "le" when
\* F / 2^q <= log2(T), "gt" when it is greater, "undecided" when the
\* enclosure of T cannot tell.
RECURSIVE FracCmpLog2(_, _, _, _, _)
FracCmpLog2(F, q, lo, hi, i) ==
    IF i > q THEN "le"
    ELSE LET slo == FixSqr(lo)
             shi == FixSqr(hi) + 1
             fbit == (F \div Pow2(q - i)) % 2
         IN  IF slo >= 2 * FixOne
             THEN IF fbit = 0 THEN "le"
                  ELSE FracCmpLog2(F, q, slo \div 2, (shi + 1) \div 2, i + 1)
             ELSE IF shi < 2 * FixOne
             THEN IF fbit = 1 THEN "gt"
                  ELSE FracCmpLog2(F, q, slo, shi, i + 1)
             ELSE "undecided"

\* Whether (2^lg as f32).powf(r) <= B for an integer 1 <= B < 2^24, powf
\* returning the binary32 nearest to the real power 2^(lg * r.m / 2^r.q): that
\* is, whether the real power is at most B plus half the gap above B.
powf_cmp(lg, r, B) ==
    LET X == lg * r.m
        I == X \div Pow2(r.q)
        F == X % Pow2(r.q)
        e == FloorLog2(B)
        T == B * Pow2(28 - e) + Pow2(4)
    IN  IF I < e THEN "le"
        ELSE IF I > e THEN "gt"
        ELSE FracCmpLog2(F, r.q, T, T, 1)

\* .ceil() as u32 of the power: the least integer the power does not exceed.
ceil_powf(lg, r) ==
    LET I == (lg * r.m) \div Pow2(r.q)
    IN  CHOOSE B \in Pow2(I)..Pow2(I + 1) :
            /\ powf_cmp(lg, r, B) = "le"
            /\ (B = 1 \/ powf_cmp(lg, r, B - 1) = "gt")

\* The component counts ("arities") the model applies the codec to: the unit
\* tests draw them as i % 10 + 3.
MinArity == 3

MaxArity == 12

Arities == MinArity..MaxArity

\* fn components_base(len) -> u32.  The value depends on len alone, so it is
\* computed once per arity.
BaseTable == [len \in Arities |-> ceil_powf(LOG2_IPV4_COMBS, f32_recip(len))]

\* Mutant: the power truncated by `as u32` without .ceil().
components_base_trunc(len) ==
    IF WidePow(BaseTable[len], len) = IPV4_COMBS THEN BaseTable[len]
    ELSE BaseTable[len] - 1

components_base(len) == BaseTable[len]


(***************************************************************************)
(* The build profile decides what u32 overflow does: with overflow checks  *)
(* (the dev and test profiles) `*`, `pow` and `sum` panic, without (the    *)
(* release profile) they wrap modulo 2^32.  PANIC is the value of an       *)
(* arithmetic expression that panicked.                                    *)
(***************************************************************************)
PANIC == <<-1, -1>>

u32_checked(x, checks) ==
    IF FitsU32(x) THEN x ELSE IF checks THEN PANIC ELSE WrapU32(x)

\* x * s in u32, s < 2^15
u32_mul(x, s, checks) ==
    IF x = PANIC THEN PANIC ELSE u32_checked(WideMulSmall(x, s), checks)

u32_add(x, y, checks) ==
    IF x = PANIC \/ y = PANIC THEN PANIC ELSE u32_checked(WideAdd(x, y), checks)

\* base.pow(exp): overflows iff the power does
RECURSIVE u32_pow(_, _, _)
u32_pow(base, exp, checks) ==
    IF exp = 0 THEN <<0, 1>>
    ELSE u32_mul(u32_pow(base, exp - 1, checks), base, checks)

(***************************************************************************)
(* fn deconstruct(ordinal, len) -> Vec<u32>                                *)
(***************************************************************************)
RECURSIVE deconstruct_loop(_, _, _, _, _)
deconstruct_loop(comp, rem, base, len, place) ==
    IF place >= len THEN comp
    ELSE LET dm == WideDivMod(rem, base)
             comp2 == [comp EXCEPT ![len - place] = dm.r]
         IN  IF dm.q = <<0, 0>> THEN comp2
             ELSE deconstruct_loop(comp2, dm.q, base, len, place + 1)

\* Mutant: the digits stored least-significant first (comp[place]).
RECURSIVE deconstruct_lsf_loop(_, _, _, _, _)
deconstruct_lsf_loop(comp, rem, base, len, place) ==
    IF place >= len THEN comp
    ELSE LET dm == WideDivMod(rem, base)
             comp2 == [comp EXCEPT ![place + 1] = dm.r]
         IN  IF dm.q = <<0, 0>> THEN comp2
             ELSE deconstruct_lsf_loop(comp2, dm.q, base, len, place + 1)

deconstruct_lsf(ordinal, len) ==
    deconstruct_lsf_loop([i \in 1..len |-> 0], ordinal, components_base(len), len, 0)

deconstruct(ordinal, len) ==
    deconstruct_loop([i \in 1..len |-> 0], ordinal, components_base(len), len, 0)

(***************************************************************************)
(* fn construct(components) -> u32: the sum, over the reversed components  *)
(* numbered i = 0, 1, ..., of comp * base.pow(i).                          *)
(***************************************************************************)
RECURSIVE construct_sum(_, _, _, _, _)
construct_sum(components, base, i, acc, checks) ==
    IF i >= Len(components) THEN acc
    ELSE LET comp == components[Len(components) - i]
             term == u32_mul(u32_pow(base, i, checks), comp, checks)
         IN  construct_sum(components, base, i + 1, u32_add(acc, term, checks), checks)

\* Mutant: the components enumerated without .rev().
RECURSIVE construct_norev_sum(_, _, _, _, _)
construct_norev_sum(components, base, i, acc, checks) ==
    IF i >= Len(components) THEN acc
    ELSE LET term == u32_mul(u32_pow(base, i, checks), components[i + 1], checks)
         IN  construct_norev_sum(components, base, i + 1,
                                 u32_add(acc, term, checks), checks)

construct_norev(components, checks) ==
    construct_norev_sum(components, components_base(Len(components)), 0, <<0, 0>>, checks)

construct(components, checks) ==
    construct_sum(components, components_base(Len(components)), 0, <<0, 0>>, checks)

(***************************************************************************)
(* Text.  Option<T>: None is <<>>, Some(v) is <<v>>.                       *)
(***************************************************************************)
None == <<>>

Some(v) == <<v>>

DIVIDER == "."

DigitChars == <<"0", "1", "2", "3", "4", "5", "6", "7", "8", "9">>

IsDigit(c) == \E d \in 1..10 : DigitChars[d] = c

DigitValue(c) == (CHOOSE d \in 1..10 : DigitChars[d] = c) - 1

\* str::split(sep): the pieces between the separators, in order; the empty
\* string splits into one empty piece.
RECURSIVE split_from(_, _, _, _, _)
split_from(s, sep, i, cur, pieces) ==
    IF i > Len(s) THEN Append(pieces, cur)
    ELSE IF s[i] = sep THEN split_from(s, sep, i + 1, <<>>, Append(pieces, cur))
    ELSE split_from(s, sep, i + 1, Append(cur, s[i]), pieces)

split(s, sep) == split_from(s, sep, 1, <<>>, <<>>)

\* [..].join(sep)
RECURSIVE join(_, _)
join(parts, sep) ==
    IF Len(parts) = 0 THEN <<>>
    ELSE IF Len(parts) = 1 THEN parts[1]
    ELSE parts[1] \o <<sep>> \o join(Tail(parts), sep)

\* u32::to_string for a component
RECURSIVE to_string(_)
to_string(n) ==
    IF n < 10 THEN <<DigitChars[n + 1]>>
    ELSE Append(to_string(n \div 10), DigitChars[(n % 10) + 1])

\* str::parse::<u8>: an optional leading '+', then one or more decimal
\* digits whose value stays within u8 (checked_mul, checked_add).
RECURSIVE parse_u8_digits(_, _, _)
parse_u8_digits(digits, i, acc) ==
    IF i > Len(digits) THEN Some(acc)
    ELSE IF ~IsDigit(digits[i]) THEN None
    ELSE LET v == acc * 10 + DigitValue(digits[i])
         IN  IF v > 255 THEN None ELSE parse_u8_digits(digits, i + 1, v)

parse_u8(src) ==
    IF Len(src) = 0 THEN None
    ELSE LET digits == IF src[1] = "+" THEN Tail(src) ELSE src
         IN  IF Len(digits) = 0 THEN None ELSE parse_u8_digits(digits, 1, 0)

(***************************************************************************)
(* fn parse_ipv4(ipv4) -> Option<[u8; 4]>                                  *)
(***************************************************************************)
RECURSIVE parse_ipv4_loop(_, _, _)
parse_ipv4_loop(comps, i, output) ==
    IF i > Len(comps) THEN Some(output)
    ELSE LET result == parse_u8(comps[i])
         IN  IF result = None THEN None
             ELSE parse_ipv4_loop(comps, i + 1, [output EXCEPT ![i] = result[1]])

parse_ipv4(ipv4) ==
    LET comps == split(ipv4, DIVIDER)
    IN  IF Len(comps) # 4 THEN None
        ELSE parse_ipv4_loop(comps, 1, <<0, 0, 0, 0>>)

\* fn format_ipv4(components) -> String
format_ipv4(components) ==
    join([i \in 1..Len(components) |-> to_string(components[i])], DIVIDER)

(***************************************************************************)
(* The dictionary (crate::wordlist::WORDS).  The word list itself is not   *)
(* among the sources; it is modelled from its specification: an immutable, *)
(* lexicographically sorted sequence of unique words, indexed from 0, with *)
(* at least components_base(3) entries (here every three-letter word over  *)
(* twelve letters, 1728 entries, so that entries beyond the base exist).   *)
(***************************************************************************)
Letters == <<"a", "b", "c", "d", "e", "f", "g", "h", "i", "j", "k", "l">>

WORDS_LEN == Len(Letters) * Len(Letters) * Len(Letters)

WORDS ==
    [i \in 0..(WORDS_LEN - 1) |->
        <<Letters[(i \div (Len(Letters) * Len(Letters))) + 1],
          Letters[((i \div Len(Letters)) % Len(Letters)) + 1],
          Letters[(i % Len(Letters)) + 1]>>]

\* The characters of the model in code order (ASCII).
CharOrder ==
    <<"\n", " ", "+", "-", ".", "0", "1", "2", "3", "4", "5", "6", "7", "8", "9",
      ":", "<", ">", "A", "B", "C", "D", "E", "I", "K", "L", "P", "U",
      "a", "b", "c", "d", "e", "f", "g", "h", "i", "j", "k", "l", "m", "n",
      "o", "p", "q", "r", "s", "t", "u", "w", "x", "y", "z">>

Ord(c) == CHOOSE i \in 1..Len(CharOrder) : CharOrder[i] = c

\* Ord for str: lexicographic by character, a proper prefix first.
RECURSIVE str_cmp(_, _, _)
str_cmp(a, b, i) ==
    IF i > Len(a) /\ i > Len(b) THEN "Equal"
    ELSE IF i > Len(a) THEN "Less"
    ELSE IF i > Len(b) THEN "Greater"
    ELSE IF Ord(a[i]) < Ord(b[i]) THEN "Less"
    ELSE IF Ord(a[i]) > Ord(b[i]) THEN "Greater"
    ELSE str_cmp(a, b, i + 1)

\* WORDS.binary_search(&comp): Some(index) for Ok(index), None for Err(_)
RECURSIVE binary_search_loop(_, _, _)
binary_search_loop(target, left, right) ==
    IF left >= right THEN None
    ELSE LET mid == left + ((right - left) \div 2)
             cmp == str_cmp(WORDS[mid], target, 1)
         IN  IF cmp = "Less" THEN binary_search_loop(target, mid + 1, right)
             ELSE IF cmp = "Greater" THEN binary_search_loop(target, left, mid)
             ELSE Some(mid)

binary_search(target) == binary_search_loop(target, 0, WORDS_LEN)

(***************************************************************************)
(* fn parse_epid3(epid) -> Option<[u32; 3]>                                *)
(***************************************************************************)
RECURSIVE parse_epid3_loop(_, _, _)
parse_epid3_loop(comps, i, indices) ==
    IF i > Len(comps) THEN Some(indices)
    ELSE LET found == binary_search(comps[i])
         IN  IF found = None THEN None
             ELSE parse_epid3_loop(comps, i + 1, [indices EXCEPT ![i] = found[1]])

\* Mutant: only too many tokens are refused (comps.len() > 3).
parse_epid3_at_most(epid) ==
    LET comps == split(epid, DIVIDER)
    IN  IF Len(comps) > 3 THEN None
        ELSE parse_epid3_loop(comps, 1, <<0, 0, 0>>)

parse_epid3(epid) ==
    LET comps == split(epid, DIVIDER)
    IN  IF Len(comps) # 3 THEN None
        ELSE parse_epid3_loop(comps, 1, <<0, 0, 0>>)

\* A call that panicked instead of returning an Option.
Panicked == <<"panic", "panic">>

\* fn format_epid3(components) -> String; WORDS[i] panics out of bounds
format_epid3(components) ==
    IF \E i \in 1..Len(components) : components[i] >= WORDS_LEN THEN Panicked
    ELSE join([i \in 1..Len(components) |-> WORDS[components[i]]], DIVIDER)

(***************************************************************************)
(* The public conversions.                                                 *)
(***************************************************************************)
\* Mutant: the ordinal decomposed into 3 components instead of 4.
epid3_to_ipv4_len3(epid, checks) ==
    LET comps == parse_epid3(epid)
    IN  IF comps = None THEN None
        ELSE LET ordinal == construct(comps[1], checks)
             IN  IF ordinal = PANIC THEN Panicked
                 ELSE Some(format_ipv4(deconstruct(ordinal, 3)))

epid3_to_ipv4(epid, checks) ==
    LET comps == parse_epid3(epid)
    IN  IF comps = None THEN None
        ELSE LET ordinal == construct(comps[1], checks)
             IN  IF ordinal = PANIC THEN Panicked
                 ELSE Some(format_ipv4(deconstruct(ordinal, 4)))

ipv4_to_epid3(ipv4, checks) ==
    LET comps == parse_ipv4(ipv4)
    IN  IF comps = None THEN None
        ELSE LET ordinal == construct(comps[1], checks)
             IN  IF ordinal = PANIC THEN Panicked
                 ELSE LET text == format_epid3(deconstruct(ordinal, 3))
                      IN  IF text = Panicked THEN Panicked ELSE Some(text)

(***************************************************************************)
(* State.                                                                  *)
(*   overflow_checks  the build profile (see PANIC above)                  *)
(* The command loop of fn main:                                            *)
(*   pc     "read" before stdin.read_line, "match" between read_line and   *)
(*          the match on tokens[0], "exited" after the loop, "panicked"    *)
(*          when the process aborted                                       *)
(*   line   the line buffer                                                *)
(*   out    the lines printed since the last read_line                     *)
(*   eof    whether read_line has reported the end of the input            *)
(*   nread  the number of lines read so far                                *)
(* The codec's functions applied on their own (pc = "call", then           *)
(* "returned"):                                                            *)
(*   call   the function and its arguments                                 *)
(*   ret    what it returned                                               *)
(***************************************************************************)
VARIABLES overflow_checks, pc, line, out, eof, nread, call, ret

vars == <<overflow_checks, pc, line, out, eof, nread, call, ret>>

\* The most lines a run of the command loop reads before its input ends.
MaxLines == 2

(***************************************************************************)
(* fn main: the command loop.                                              *)
(***************************************************************************)
BAD_IP == <<"<", "b", "a", "d", " ", "I", "P", ">">>

BAD_EPID3 == <<"<", "b", "a", "d", " ", "E", "P", "I", "D", "3", ">">>

UNKNOWN_COMMAND ==
    <<"U", "n", "k", "n", "o", "w", "n", " ", "c", "o", "m", "m", "a", "n", "d", ".",
      " ", "T", "r", "y", " ", "i", "p", " ", "o", "r", " ", "e", "p", "i", "d", ".">>

CMD_IP == <<"i", "p">>

CMD_EPID == <<"e", "p", "i", "d">>

CMD_QUIT == <<"q", "u", "i", "t">>

IsWhitespace(c) == c \in {" ", "\n"}

\* str::trim
RECURSIVE trim_start(_)
trim_start(s) ==
    IF Len(s) > 0 /\ IsWhitespace(s[1]) THEN trim_start(Tail(s)) ELSE s

RECURSIVE trim_end(_)
trim_end(s) ==
    IF Len(s) > 0 /\ IsWhitespace(s[Len(s)])
    THEN trim_end(SubSeq(s, 1, Len(s) - 1)) ELSE s

trim(s) == trim_end(trim_start(s))

\* line.trim().split(' ').collect()
tokens_of(l) == split(trim(l), " ")

Ident(i, j, k) == join(<<WORDS[i], WORDS[j], WORDS[k]>>, DIVIDER)

Quad(a, b, c, d) == join(<<to_string(a), to_string(b), to_string(c), to_string(d)>>, DIVIDER)

\* The lines the input may hold (without their line feed).
InputLines ==
    {CMD_IP \o <<" ">> \o Quad(192, 168, 1, 1),
     CMD_IP \o <<" ">> \o Quad(255, 255, 255, 255),
     CMD_IP \o <<" ">> \o <<"1", ".", "2", ".", "3">>,
     CMD_IP \o <<" ">> \o <<"+", "1", ".", "2", ".", "3", ".", "4">>,
     CMD_IP \o <<" ", " ">> \o Quad(1, 2, 3, 4),
     <<" ">> \o CMD_IP \o <<" ">> \o Quad(1, 2, 3, 4) \o <<" ">>,
     CMD_IP \o <<" ">> \o Quad(1, 2, 3, 4) \o <<" ", "x">>,
     CMD_IP,
     <<"I", "P">> \o <<" ">> \o Quad(1, 2, 3, 4),
     CMD_EPID \o <<" ">> \o Ident(0, 1, 1625),
     CMD_EPID \o <<" ">> \o Ident(1000, 1727, 7),
     CMD_EPID \o <<" ">> \o Ident(1625, 0, 0),
     CMD_EPID \o <<" ">> \o Ident(1727, 1727, 1727),
     CMD_EPID \o <<" ">> \o <<"a", "a", "a", ".", "b", "b", "b">>,
     CMD_EPID \o <<" ">> \o <<"A", "A", "A", ".", "a", "a", "a", ".", "a", "a", "a">>,
     CMD_EPID \o <<" ">> \o Quad(1, 2, 3, 4),
     CMD_EPID,
     CMD_QUIT,
     CMD_QUIT \o <<" ", "x">>,
     <<"q", "u", "i", "t", "s">>,
     <<"x">>,
     <<>>}

\* stdin.read_line(&mut line) appends the next line, line feed included.
ReadLine ==
    /\ pc = "read"
    /\ ~eof
    /\ nread < MaxLines
    /\ \E l \in InputLines : line' = line \o l \o <<"\n">>
    /\ nread' = nread + 1
    /\ out' = <<>>
    /\ pc' = "match"
    /\ UNCHANGED <<eof, overflow_checks, call, ret>>

\* At the end of the input read_line returns Ok(0) and appends nothing.
ReadEof ==
    /\ pc = "read"
    /\ eof' = TRUE
    /\ out' = <<>>
    /\ pc' = "match"
    /\ UNCHANGED <<line, nread, overflow_checks, call, ret>>

\* if read.is_err() { break }
ReadErr ==
    /\ pc = "read"
    /\ out' = <<>>
    /\ pc' = "exited"
    /\ UNCHANGED <<line, eof, nread, overflow_checks, call, ret>>

\* unwrap_or(placeholder) of a conversion's result, printed
Printed(result, placeholder) ==
    IF result = None THEN <<placeholder>> ELSE <<result[1]>>

\* The rest of the loop body for the buffer `buffer`: the match on tokens[0],
\* then line.clear().  tokens[1] panics when the line holds one token only.
\* The result is where the loop goes, the buffer afterwards and what was
\* printed.
match_tokens(buffer, checks) ==
    LET tokens == tokens_of(buffer)
        conv == IF Len(tokens) < 2 THEN Panicked
                ELSE IF tokens[1] = CMD_IP
                     THEN ipv4_to_epid3(tokens[2], checks)
                ELSE epid3_to_ipv4(tokens[2], checks)
    IN  IF tokens[1] = CMD_QUIT
        THEN [pc |-> "exited", line |-> buffer, out |-> <<>>]
        ELSE IF tokens[1] \in {CMD_IP, CMD_EPID}
        THEN IF conv = Panicked
             THEN [pc |-> "panicked", line |-> buffer, out |-> <<>>]
             ELSE [pc |-> "read", line |-> <<>>,
                   out |-> Printed(conv, IF tokens[1] = CMD_IP
                                         THEN BAD_IP ELSE BAD_EPID3)]
        ELSE [pc |-> "read", line |-> <<>>, out |-> <<UNKNOWN_COMMAND>>]

\* What the buffer can hold after read_line: one line, or nothing at the end
\* of the input.  The loop body's result depends on the buffer and the build
\* profile alone, so it is computed once for each.
Buffers == {<<>>} \cup {l \o <<"\n">> : l \in InputLines}

MatchTable == [buffer \in Buffers, checks \in BOOLEAN |-> match_tokens(buffer, checks)]

Match ==
    /\ pc = "match"
    /\ pc' = MatchTable[line, overflow_checks].pc
    /\ line' = MatchTable[line, overflow_checks].line
    /\ out' = MatchTable[line, overflow_checks].out
    /\ UNCHANGED <<eof, nread, overflow_checks, call, ret>>

NoCall == [fn |-> "none"]

Init ==
    /\ overflow_checks \in BOOLEAN
    /\ pc = "read"
    /\ line = <<>>
    /\ out = <<>>
    /\ eof = FALSE
    /\ nread = 0
    /\ call = NoCall
    /\ ret = None

Next == ReadLine \/ ReadEof \/ ReadErr \/ Match

Spec == Init /\ [][Next]_vars

\* The loop is sequential code: while it has not exited it takes its next step.
FairSpec == Spec /\ WF_vars(Next)

(***************************************************************************)
(* The codec's functions applied on their own, as the unit tests of        *)
(* src/src/ipv4.rs apply them: the initial state draws a function and its  *)
(* arguments, the function's action applies it.                            *)
(***************************************************************************)
OrdinalHi == {0, 1, 40, 255, 256, 4095, 32768, 49320, 65535}

OrdinalLo == {0, 1, 40, 255, 256, 1626, 32768, 65535}

\* ordinals of the canonical range [0, 256^4)
Ordinals == {<<h, l>> : h \in OrdinalHi, l \in OrdinalLo}

Octets == {0, 1, 9, 10, 100, 168, 255}

Digits3 == {0, 9, 131, 552, 1624, 1625}

Digits4 == {0, 1, 168, 192, 255}

\* digit sequences, every digit below components_base of the length
DigitSeqs ==
    {<<a, b, c>> : a \in Digits3, b \in Digits3, c \in Digits3}
    \cup {<<a, b, c, d>> : a \in Digits4, b \in Digits4, c \in Digits4, d \in Digits4}
    \cup UNION {{[i \in 1..n |-> IF i = j THEN d ELSE e] :
                    j \in 1..n,
                    d \in {0, 1, components_base(n) - 1},
                    e \in {0, 1, components_base(n) - 1}} :
                n \in (MinArity + 2)..MaxArity}

Ipv4Tokens ==
    {<<>>, <<"0">>, <<"2", "5", "5">>, <<"2", "5", "6">>, <<"0", "0", "7">>,
     <<"+", "1">>, <<"-", "1">>, <<"1", "a">>}

FewTokens == {<<>>, <<"1">>, <<"a", "a", "a">>}

Ipv4Texts ==
    {join(<<a, b, c, d>>, DIVIDER) :
        a \in Ipv4Tokens, b \in Ipv4Tokens, c \in Ipv4Tokens, d \in Ipv4Tokens}
    \cup {join(<<a, b, c>>, DIVIDER) : a \in FewTokens, b \in FewTokens, c \in FewTokens}
    \cup {join(<<a, b, c, b, a>>, DIVIDER) : a \in FewTokens, b \in FewTokens, c \in FewTokens}
    \cup {join(<<a, b, c, a>>, ":") : a \in FewTokens, b \in FewTokens, c \in FewTokens}
    \cup {<<" ">> \o Quad(1, 2, 3, 4), Quad(1, 2, 3, 4) \o <<" ">>,
          <<"+">> \o Quad(1, 2, 3, 4), <<"1", ".", "+", ".", "3", ".", "4">>,
          <<"1", ".", "+", "+", "2", ".", "3", ".", "4">>,
          <<"1", ".", "2", "+", ".", "3", ".", "4">>}

EpidTokens ==
    {WORDS[0], WORDS[1], WORDS[1000], WORDS[1625], WORDS[WORDS_LEN - 1],
     <<"A", "A", "A">>, <<"a", "a">>, <<"a", "a", "a", "a">>, <<>>,
     <<"a", "a", "m">>, <<"z", "z", "z">>}

EpidTexts ==
    {join(<<a, b, c>>, DIVIDER) : a \in EpidTokens, b \in EpidTokens, c \in EpidTokens}
    \cup {join(<<a, b>>, DIVIDER) : a \in FewTokens, b \in FewTokens}
    \cup {join(<<a, b, a, b>>, DIVIDER) : a \in FewTokens, b \in FewTokens}
    \cup {join(<<a, b, a>>, ":") : a \in FewTokens, b \in FewTokens}
    \cup {<<>>, <<"a", "a", "a">>, Ident(0, 1, 2) \o <<" ">>, <<" ">> \o Ident(0, 1, 2)}

WordPositions == {0, 1, 1000, 1624, 1625, 1626, WORDS_LEN - 1}

Identifiers == {Ident(i, j, k) : i \in WordPositions, j \in WordPositions, k \in WordPositions}

Calls ==
    {[fn |-> "components_base", len |-> k] : k \in Arities}
    \cup {[fn |-> "deconstruct", ordinal |-> o, len |-> k] : o \in Ordinals, k \in Arities}
    \cup {[fn |-> "construct", components |-> c] : c \in DigitSeqs}
    \cup {[fn |-> "parse_ipv4", ipv4 |-> t] : t \in Ipv4Texts}
    \cup {[fn |-> "parse_epid3", epid |-> t] : t \in EpidTexts}
    \cup {[fn |-> "epid3_to_ipv4", epid |-> t] : t \in Identifiers}
    \cup {[fn |-> "test_epid3_ipv4_inverse", octets |-> <<a, b, c, d>>] :
            a \in Octets, b \in Octets, c \in Octets, d \in Octets}

Return(value) ==
    /\ pc = "call"
    /\ ret' = value
    /\ pc' = "returned"
    /\ UNCHANGED <<overflow_checks, line, out, eof, nread, call>>

Apply_components_base ==
    /\ call.fn = "components_base"
    /\ Return(components_base(call.len))

Apply_deconstruct ==
    /\ call.fn = "deconstruct"
    /\ Return(deconstruct(call.ordinal, call.len))

Apply_construct ==
    /\ call.fn = "construct"
    /\ Return(construct(call.components, overflow_checks))

Apply_parse_ipv4 ==
    /\ call.fn = "parse_ipv4"
    /\ Return(parse_ipv4(call.ipv4))

Apply_parse_epid3 ==
    /\ call.fn = "parse_epid3"
    /\ Return(parse_epid3(call.epid))

Apply_epid3_to_ipv4 ==
    /\ call.fn = "epid3_to_ipv4"
    /\ Return(epid3_to_ipv4(call.epid, overflow_checks))

\* #[test] fn test_epid3_ipv4_inverse, for one address: ip, epid3 and new_ip
\* are the test's locals; unwrap() of None panics.
Apply_test_epid3_ipv4_inverse ==
    /\ call.fn = "test_epid3_ipv4_inverse"
    /\ LET ip == format_ipv4(call.octets)
           epid3 == ipv4_to_epid3(ip, overflow_checks)
           new_ip == IF Len(epid3) # 1 THEN Panicked
                     ELSE epid3_to_ipv4(epid3[1], overflow_checks)
       IN  Return([ip |-> ip, epid3 |-> epid3, new_ip |-> new_ip])

InitCodec ==
    /\ overflow_checks \in BOOLEAN
    /\ pc = "call"
    /\ line = <<>>
    /\ out = <<>>
    /\ eof = FALSE
    /\ nread = 0
    /\ call \in Calls
    /\ ret = None

NextCodec ==
    \/ Apply_components_base
    \/ Apply_deconstruct
    \/ Apply_construct
    \/ Apply_parse_ipv4
    \/ Apply_parse_epid3
    \/ Apply_epid3_to_ipv4
    \/ Apply_test_epid3_ipv4_inverse

CodecSpec == InitCodec /\ [][NextCodec]_vars

Returned(fn) == pc = "returned" /\ call.fn = fn

(***************************************************************************)
(* Reference definitions for the properties below.                         *)
(***************************************************************************)
\* The sum over i of c[i] * base^(n - i), exactly (no width).
RECURSIVE ExactSumTo(_, _, _)
ExactSumTo(c, base, i) ==
    IF i = 0 THEN <<0, 0>>
    ELSE WideAdd(WideMulSmall(ExactSumTo(c, base, i - 1), base), WideOfInt(c[i]))

ExactSum(c) == ExactSumTo(c, components_base(Len(c)), Len(c))

\* floor(o / base^p)
RECURSIVE WideDivPow(_, _, _)
WideDivPow(o, base, p) ==
    IF p = 0 THEN o ELSE WideDivPow(WideDivMod(o, base).q, base, p - 1)

WordSet == {WORDS[i] : i \in 0..(WORDS_LEN - 1)}

WordPosition(w) == CHOOSE i \in 0..(WORDS_LEN - 1) : WORDS[i] = w

\* The positions of the separator in a text.
DotsOf(s) == {p \in 1..Len(s) : s[p] = DIVIDER}

\* The n-th separator position of a text (n = 1, 2, ...)
NthDot(s, n) == CHOOSE p \in DotsOf(s) : Cardinality({r \in DotsOf(s) : r <= p}) = n

\* The n-th of the k + 1 pieces a text with k separators falls into.
Piece(s, n) ==
    LET k == Cardinality(DotsOf(s))
        from == IF n = 1 THEN 1 ELSE NthDot(s, n - 1) + 1
        to == IF n = k + 1 THEN Len(s) ELSE NthDot(s, n) - 1
    IN  SubSeq(s, from, to)

RECURSIVE DecimalValue(_)
DecimalValue(t) ==
    IF Len(t) = 0 THEN 0
    ELSE 10 * DecimalValue(SubSeq(t, 1, Len(t) - 1)) + DigitValue(t[Len(t)])

\* decimal digits only, at least one, denoting an integer in [0, 255]
IsOctetText(t) ==
    /\ Len(t) > 0
    /\ \A i \in 1..Len(t) : IsDigit(t[i])
    /\ \A n \in 1..Len(t) : DecimalValue(SubSeq(t, 1, n)) <= 255

(***************************************************************************)
(* Properties.                                                             *)
(***************************************************************************)

\* C1: address round trip.  For every quad of octets, formatting it,
\* encoding the text with ipv4_to_epid3 and decoding the result with
\* epid3_to_ipv4 returns a value at both steps, and the decoded text is the
\* original dotted-quad text.
C1_AddressRoundTrip ==
    Returned("test_epid3_ipv4_inverse") =>
        /\ Len(ret.epid3) = 1
        /\ ret.new_ip = Some(ret.ip)
        /\ parse_ipv4(ret.new_ip[1]) = Some(call.octets)

C1_Witness ==
    /\ Returned("test_epid3_ipv4_inverse")
    /\ call.octets = <<255, 255, 255, 255>>
    /\ ret.new_ip = Some(Quad(255, 255, 255, 255))

\* C2: decompose/compose inverse.  For every ordinal o of [0, 256^4) and
\* every arity k, construct(deconstruct(o, k)) = o, under either build
\* profile.
C2_DeconstructConstructInverse ==
    Returned("deconstruct") => construct(ret, overflow_checks) = call.ordinal

C2_Witness ==
    /\ Returned("deconstruct")
    /\ call.len = MaxArity
    /\ call.ordinal = <<65535, 65535>>
    /\ overflow_checks
    /\ construct(ret, overflow_checks) = <<65535, 65535>>

\* C3 (as claimed): parse_ipv4 returns a result iff the text falls into
\* exactly 4 pieces at its '.' characters and every piece is decimal digits
\* only (no sign), non-empty, denoting an integer in [0, 255]; the result is
\* then those four integers in order.
C3_StrictAddressParsing ==
    Returned("parse_ipv4") =>
        LET wellFormed ==
                /\ Cardinality(DotsOf(call.ipv4)) = 3
                /\ \A n \in 1..4 : IsOctetText(Piece(call.ipv4, n))
        IN  /\ (ret # None) <=> wellFormed
            /\ wellFormed =>
                   ret = Some([n \in 1..4 |-> DecimalValue(Piece(call.ipv4, n))])

\* C4: parse_epid3 returns a result iff the text falls into exactly 3 pieces
\* at its '.' characters and every piece is exactly a dictionary word; the
\* result is then the 0-based dictionary positions of the pieces in order.
C4_StrictIdentifierParsing ==
    Returned("parse_epid3") =>
        LET wellFormed ==
                /\ Cardinality(DotsOf(call.epid)) = 2
                /\ \A n \in 1..3 : Piece(call.epid, n) \in WordSet
        IN  /\ (ret # None) <=> wellFormed
            /\ wellFormed =>
                   ret = Some([n \in 1..3 |-> WordPosition(Piece(call.epid, n))])

C4_Witness ==
    /\ Returned("parse_epid3")
    /\ call.epid = Ident(0, 1, 1625)
    /\ ret = Some(<<0, 1, 1625>>)

\* C5 (as claimed): for every 3-digit sequence with digits below
\* components_base(3), construct returns the exact sum, which fits the
\* 32-bit ordinal, without panic or wrap-around; and epid3_to_ipv4 on three
\* dictionary words at positions below the base returns the address of that
\* exact sum.
C5_CompositionWithinWidth ==
    /\ (Returned("construct") /\ Len(call.components) = 3) =>
           /\ ret # PANIC
           /\ FitsU32(ExactSum(call.components))
           /\ ret = ExactSum(call.components)
    /\ Returned("epid3_to_ipv4") =>
           LET comps == parse_epid3(call.epid)[1]
           IN  (\A n \in 1..3 : comps[n] < components_base(3)) =>
                   /\ Len(ret) = 1
                   /\ parse_ipv4(ret[1]) # None
                   /\ ExactSumTo(parse_ipv4(ret[1])[1], 256, 4) = ExactSum(comps)

\* C6: for every arity k, components_base(k) is the least B with
\* B^k >= 256^4; components_base(3) = 1626 and components_base(4) = 256.
C6_BaseDerivation ==
    Returned("components_base") =>
        /\ ~WideLess(WidePow(ret, call.len), IPV4_COMBS)
        /\ WideLess(WidePow(ret - 1, call.len), IPV4_COMBS)
        /\ (call.len = 3 => ret = 1626)
        /\ (call.len = 4 => ret = 256)

C6_Witness == Returned("components_base") /\ call.len = 3 /\ ret = 1626

\* C7 (as claimed): for every digit sequence c of length n with digits below
\* components_base(n), construct(c) is the sum over i of c[i] * base^(n-1-i).
C7_CompositionExactness ==
    Returned("construct") =>
        /\ ret = ExactSum(call.components)
        /\ (call.components = <<192, 168, 0, 1>> => ret = <<192 * 256 + 168, 1>>)

\* C8: deconstruct(o, k) returns exactly k digits, each below
\* components_base(k), and the digit at position k-1-p is
\* floor(o / base^p) mod base for every p, as a decomposition that never
\* stops early produces; deconstruct(40, 4) = [0, 0, 0, 40].
C8_DecompositionExactness ==
    Returned("deconstruct") =>
        LET k == call.len
            base == components_base(k)
        IN  /\ Len(ret) = k
            /\ \A i \in 1..k :
                   /\ 0 <= ret[i] /\ ret[i] < base
                   /\ ret[i] = WideDivMod(WideDivPow(call.ordinal, base, k - i), base).r
            /\ (call.ordinal = <<0, 40>> /\ k = 4 => ret = <<0, 0, 0, 40>>)

C8_Witness ==
    /\ Returned("deconstruct")
    /\ call.ordinal = <<0, 40>>
    /\ call.len = 4
    /\ ret = <<0, 0, 0, 40>>

\* C9 (as claimed): for every line read, the loop prints exactly one line
\* before it reads again and does not abort: after `ip` an identifier or
\* <bad IP>, after `epid` an address or <bad EPID3>, after any other first
\* token except `quit` the unknown-command message; and it clears the buffer.
C9_CommandLoopResponse ==
    [][(pc = "match" /\ ~eof /\ tokens_of(line)[1] # CMD_QUIT) =>
          /\ pc' = "read"
          /\ line' = <<>>
          /\ Len(out') = 1
          /\ (tokens_of(line)[1] = CMD_IP =>
                  (out'[1] = BAD_IP \/ parse_epid3(out'[1]) # None))
          /\ (tokens_of(line)[1] = CMD_EPID =>
                  (out'[1] = BAD_EPID3 \/ parse_ipv4(out'[1]) # None))
          /\ (tokens_of(line)[1] \notin {CMD_IP, CMD_EPID} =>
                  out'[1] = UNKNOWN_COMMAND)]_vars

\* C10 (as claimed): the loop exits, printing nothing more, as soon as a line
\* whose first token is `quit` is read; and once the input has ended the
\* loop eventually exits.
C10_CommandLoopTermination ==
    /\ [][(pc = "match" /\ tokens_of(line)[1] = CMD_QUIT) =>
             (pc' = "exited" /\ out' = <<>>)]_vars
    /\ (eof ~> (pc = "exited"))

====
